---- MODULE Spec2Model ----
(***************************************************************************)
(* Model of users/profile_views.py of HA_backend: the upload validator     *)
(* SecureFileUploadMixin.validate_file and the request handlers that       *)
(* store uploaded files.                                                   *)
(*                                                                         *)
(* Text (filenames, MIME types, file content) is a sequence of one-        *)
(* character strings, so that len(), lower(), os.path.splitext, the `in`   *)
(* substring test and mimetypes.guess_type are computed character by       *)
(* character as the Python code computes them.                             *)
(***************************************************************************)
EXTENDS Integers, Sequences, FiniteSets, TLC

VARIABLES
    upload,        \* the uploaded file object of the call or request at hand
    outcome,       \* what its validate_file call did, or NoCall
    calls,         \* outcomes of the consecutive validate_file calls on upload
    mimeDb,        \* the platform's mimetypes database: "builtin" or "system"
    documents,     \* Document rows, in creation order
    userProfiles,  \* UserProfile row of each user, or NoProfile
    accepted,      \* the files validate_file has accepted in some request
    request,       \* the request being answered
    response,      \* the response to it
    users,         \* the ids of the CustomUser rows
    userGoals,     \* UserGoal rows
    parsedProfiles, \* ParsedProfile row of each user, or NoProfile
    lastDocumentId, \* the last id given to a Document row
    frames,        \* the validate_file calls running concurrently
    classAttrs     \* the class attributes of SecureFileUploadMixin

vars == <<upload, outcome, calls, mimeDb, documents, userProfiles,
          accepted, request, response, users, userGoals, parsedProfiles,
          lastDocumentId, frames, classAttrs>>

----------------------------------------------------------------------------
(* Bounds of the model *)

\* how far beyond a limit (size, filename length) the inputs reach
Over == 1
\* the stream positions a caller may leave a file object at: 0..MaxPos
MaxPos == 8
\* consecutive validate_file calls on one file object
MaxCalls == 2
\* validate_file calls that run concurrently
MaxThreads == 2
\* Document rows the store holds
MaxDocs == 1
\* goals in the payload of one update_user_goals request
MaxGoals == 2

----------------------------------------------------------------------------
(* Text *)

UpperToLower ==
    [A |-> "a", B |-> "b", C |-> "c", D |-> "d", E |-> "e", F |-> "f",
     G |-> "g", H |-> "h", I |-> "i", J |-> "j", K |-> "k", L |-> "l",
     M |-> "m", N |-> "n", O |-> "o", P |-> "p", Q |-> "q", R |-> "r",
     S |-> "s", T |-> "t", U |-> "u", V |-> "v", W |-> "w", X |-> "x",
     Y |-> "y", Z |-> "z"]

\* str.lower() / bytes.lower() of one character
LowerChar(c) == IF c \in DOMAIN UpperToLower THEN UpperToLower[c] ELSE c

\* str.lower() / bytes.lower()
lower(s) == [i \in 1..Len(s) |-> LowerChar(s[i])]

\* s.rfind(c), 1-based: 0 when c does not occur (Python's -1)
rfind(s, c) ==
    LET at == {i \in 1..Len(s) : s[i] = c}
    IN  IF at = {} THEN 0 ELSE CHOOSE i \in at : \A j \in at : j <= i

\* s.find(c), 1-based: 0 when c does not occur (Python's -1)
find(s, c) ==
    LET at == {i \in 1..Len(s) : s[i] = c}
    IN  IF at = {} THEN 0 ELSE CHOOSE i \in at : \A j \in at : i <= j

\* Python's `pattern in text` on str / bytes
Contains(text, pattern) ==
    \E i \in 0..(Len(text) - Len(pattern)) :
        \A j \in 1..Len(pattern) : text[i + j] = pattern[j]

Digits == <<"0", "1", "2", "3", "4", "5", "6", "7", "8", "9">>

\* str(n) of a natural number, as an f-string formats it
RECURSIVE str(_)
str(n) ==
    IF n < 10 THEN <<Digits[n + 1]>>
    ELSE str(n \div 10) \o <<Digits[(n % 10) + 1]>>

\* ', '.join(parts)
RECURSIVE join(_)
join(parts) ==
    IF Len(parts) = 0 THEN <<>>
    ELSE IF Len(parts) = 1 THEN parts[1]
    ELSE parts[1] \o <<",", " ">> \o join(Tail(parts))

\* a mutant of splitext: cuts at the last dot wherever it is
splitext_last_dot(p) ==
    LET dotIndex == rfind(p, ".")
    IN  IF dotIndex > 0
        THEN <<SubSeq(p, 1, dotIndex - 1), SubSeq(p, dotIndex, Len(p))>>
        ELSE <<p, <<>>>>

\* os.path.splitext (posixpath): <<root, ext>>. The extension starts at the
\* last dot of the last path component; leading dots of that component do
\* not start an extension.
splitext(p) ==
    LET sepIndex == rfind(p, "/")
        dotIndex == rfind(p, ".")
    IN  IF /\ dotIndex > sepIndex
           /\ \E k \in (sepIndex + 1)..(dotIndex - 1) : p[k] # "."
        THEN <<SubSeq(p, 1, dotIndex - 1), SubSeq(p, dotIndex, Len(p))>>
        ELSE <<p, <<>>>>

----------------------------------------------------------------------------
(* The allow-list and the limits *)

PDF_MIME == <<"a","p","p","l","i","c","a","t","i","o","n","/","p","d","f">>
DOC_MIME == <<"a","p","p","l","i","c","a","t","i","o","n","/","m","s","w","o","r","d">>
DOCX_MIME == <<"a","p","p","l","i","c","a","t","i","o","n","/","v","n","d",".","o","p","e","n","x","m","l","f","o","r","m","a","t","s","-","o","f","f","i","c","e","d","o","c","u","m","e","n","t",".","w","o","r","d","p","r","o","c","e","s","s","i","n","g","m","l",".","d","o","c","u","m","e","n","t">>
TXT_MIME == <<"t","e","x","t","/","p","l","a","i","n">>
JPEG_MIME == <<"i","m","a","g","e","/","j","p","e","g">>
PNG_MIME == <<"i","m","a","g","e","/","p","n","g">>
GIF_MIME == <<"i","m","a","g","e","/","g","i","f">>
HTML_MIME == <<"t","e","x","t","/","h","t","m","l">>
OCTET_MIME == <<"a","p","p","l","i","c","a","t","i","o","n","/","o","c","t","e","t","-","s","t","r","e","a","m">>
TAR_MIME == <<"a","p","p","l","i","c","a","t","i","o","n","/","x","-","t","a","r">>

EXT_PDF == <<".","p","d","f">>
EXT_DOC == <<".","d","o","c">>
EXT_DOCX == <<".","d","o","c","x">>
EXT_TXT == <<".","t","x","t">>
EXT_JPG == <<".","j","p","g">>
EXT_PNG == <<".","p","n","g">>
EXT_JPEG == <<".","j","p","e","g">>
EXT_GIF == <<".","g","i","f">>
EXT_HTML == <<".","h","t","m","l">>
EXT_EXE == <<".","e","x","e">>
EXT_TAR == <<".","t","a","r">>
EXT_GZ == <<".","g","z">>
EXT_TGZ == <<".","t","g","z">>
EXT_TAR_GZ == <<".","t","a","r",".","g","z">>

\* the dict ALLOWED_FILE_TYPES, in insertion order
ALLOWED_FILE_TYPES ==
    << [mime |-> PDF_MIME,  ext |-> EXT_PDF],
       [mime |-> DOC_MIME,  ext |-> EXT_DOC],
       [mime |-> DOCX_MIME, ext |-> EXT_DOCX],
       [mime |-> TXT_MIME,  ext |-> EXT_TXT],
       [mime |-> JPEG_MIME, ext |-> EXT_JPG],
       [mime |-> PNG_MIME,  ext |-> EXT_PNG] >>

\* ', '.join(ALLOWED_FILE_TYPES.values())
AllowedValuesJoined ==
    join([i \in DOMAIN ALLOWED_FILE_TYPES |-> ALLOWED_FILE_TYPES[i].ext])

\* ALLOWED_FILE_TYPES.values()
AllowedValues == {ALLOWED_FILE_TYPES[i].ext : i \in DOMAIN ALLOWED_FILE_TYPES}

\* the keys of ALLOWED_FILE_TYPES (`x in ALLOWED_FILE_TYPES`)
AllowedKeys == {ALLOWED_FILE_TYPES[i].mime : i \in DOMAIN ALLOWED_FILE_TYPES}

\* a mutant of the size limit: one byte more
MAX_FILE_SIZE_plus_one == 10 * 1024 * 1024 + 1

\* a mutant of the size limit: one byte less (the test `>=` for `>`)
MAX_FILE_SIZE_minus_one == 10 * 1024 * 1024 - 1

MAX_FILE_SIZE == 10 * 1024 * 1024

\* a mutant of the filename limit: one character more
MAX_FILENAME_LENGTH_plus_one == 255 + 1

MAX_FILENAME_LENGTH == 255

\* a mutant of the sample size: one byte more is read
SAMPLE_SIZE_plus_one == 2048 + 1

\* the number of bytes validate_file reads for the content check
SAMPLE_SIZE == 2048

\* None, for a text-valued expression
None == <<>>

\* the class attributes of SecureFileUploadMixin, which every view instance
\* shares (lines 31-41)
ClassAttrs ==
    [ALLOWED_FILE_TYPES |-> ALLOWED_FILE_TYPES,
     MAX_FILE_SIZE |-> MAX_FILE_SIZE,
     MAX_FILENAME_LENGTH |-> MAX_FILENAME_LENGTH]

----------------------------------------------------------------------------
(* mimetypes.guess_type, as validate_file uses it *)

\* mimetypes.suffix_map
suffix_map == (EXT_TGZ :> EXT_TAR_GZ)

\* the keys of mimetypes.encodings_map (case sensitive)
encodings_map == {EXT_GZ}

\* mimetypes.types_map after init(): the built-in table, and where the
\* platform has a mime.types file, its entries too. Python's built-in
\* table knows no ".docx"; a system mime.types file does.
types_map ==
    LET builtin == (EXT_PDF :> PDF_MIME) @@ (EXT_DOC :> DOC_MIME) @@
                   (EXT_TXT :> TXT_MIME) @@ (EXT_JPG :> JPEG_MIME) @@
                   (EXT_JPEG :> JPEG_MIME) @@ (EXT_PNG :> PNG_MIME) @@
                   (EXT_GIF :> GIF_MIME) @@ (EXT_HTML :> HTML_MIME) @@
                   (EXT_EXE :> OCTET_MIME) @@ (EXT_TAR :> TAR_MIME)
    IN  IF mimeDb = "system" THEN (EXT_DOCX :> DOCX_MIME) @@ builtin
        ELSE builtin

\* urllib.parse._splittype: <<scheme, rest>>; the scheme is the text before
\* the first ":" when that text is not empty and holds no "/", lowercased
splittype(url) ==
    LET colon == find(url, ":")
    IN  IF colon > 1 /\ \A k \in 1..(colon - 1) : url[k] # "/"
        THEN <<lower(SubSeq(url, 1, colon - 1)), SubSeq(url, colon + 1, Len(url))>>
        ELSE <<None, url>>

\* guess_type, last step: types_map.get(ext)
types_map_get(ext) ==
    IF ext \in DOMAIN types_map THEN types_map[ext] ELSE None

\* guess_type, after the suffix map: an encoding suffix is dropped, the
\* extension before it lowercased and looked up
guess_after_suffix_map(s2) ==
    types_map_get(lower((IF s2[2] \in encodings_map
                         THEN splitext(s2[1]) ELSE s2)[2]))

\* guess_type for a name that is no data URL; s1 is splitext(url)
guess_from_path(s1) ==
    guess_after_suffix_map(IF lower(s1[2]) \in DOMAIN suffix_map
                           THEN splitext(s1[1] \o suffix_map[lower(s1[2])])
                           ELSE s1)

\* the type of a data URL's media type: text/plain when it holds "=" or
\* no "/"
data_url_type(type) ==
    IF find(type, "=") > 0 \/ find(type, "/") = 0 THEN TXT_MIME ELSE type

\* guess_type for a data URL; head is the text before the first comma
data_url_head(head) ==
    data_url_type(IF find(head, ";") > 0
                  THEN SubSeq(head, 1, find(head, ";") - 1)
                  ELSE head)

\* guess_type, after _splittype: st is <<scheme, rest>>
guess_from_split(st) ==
    IF st[1] = <<"d", "a", "t", "a">>
    THEN IF find(st[2], ",") = 0 THEN None
         ELSE data_url_head(SubSeq(st[2], 1, find(st[2], ",") - 1))
    ELSE guess_from_path(splitext(st[2]))

\* mimetypes.guess_type(url)[0]: the MIME type guessed from a name, or None
guess_type(url) == guess_from_split(splittype(url))

----------------------------------------------------------------------------
(* SecureFileUploadMixin *)

\* the patterns of _contains_suspicious_content
suspicious_patterns ==
    { <<"<","s","c","r","i","p","t">>,
      <<"j","a","v","a","s","c","r","i","p","t",":">>,
      <<"v","b","s","c","r","i","p","t",":">>,
      <<"d","a","t","a",":","t","e","x","t","/","h","t","m","l">>,
      <<"d","a","t","a",":","a","p","p","l","i","c","a","t","i","o","n","/","x","-","j","a","v","a","s","c","r","i","p","t">> }

\* a mutant of _contains_suspicious_content: compares without lowercasing
contains_suspicious_content_case_sensitive(file_content) ==
    \E pattern \in suspicious_patterns : Contains(file_content, pattern)

\* SecureFileUploadMixin._contains_suspicious_content
contains_suspicious_content(file_content) ==
    LET file_content_lower == lower(file_content)
    IN  \E pattern \in suspicious_patterns : Contains(file_content_lower, pattern)

\* uploaded_file.read(n): the bytes from the stream position on, at most n,
\* and the position after them
read(f, n) ==
    LET stop == IF f.pos + n < Len(f.content) THEN f.pos + n ELSE Len(f.content)
    IN  [data |-> SubSeq(f.content, f.pos + 1, stop),
         pos  |-> IF stop > f.pos THEN stop ELSE f.pos]

\* a mutant of the reverse lookup: the dict is not inverted
\* ({k: v for k, v in ALLOWED_FILE_TYPES.items()})
extension_to_mime_get_not_inverted(file_extension) ==
    LET hits == {i \in DOMAIN ALLOWED_FILE_TYPES :
                     ALLOWED_FILE_TYPES[i].mime = file_extension}
    IN  IF hits = {} THEN None
        ELSE ALLOWED_FILE_TYPES[CHOOSE i \in hits : \A j \in hits : j <= i].ext

\* extension_to_mime.get(file_extension), with
\* extension_to_mime = {v: k for k, v in ALLOWED_FILE_TYPES.items()}
extension_to_mime_get(file_extension) ==
    LET hits == {i \in DOMAIN ALLOWED_FILE_TYPES :
                     ALLOWED_FILE_TYPES[i].ext = file_extension}
    IN  IF hits = {} THEN None
        ELSE ALLOWED_FILE_TYPES[CHOOSE i \in hits : \A j \in hits : j <= i].mime

\* what a call did: it returned True, or it raised `raised` for `reason`;
\* `checks` are the checks it evaluated, in order; `pos` is where it left
\* the stream
Did(raised, reason, checks, pos) ==
    [returned |-> raised = "none", raised |-> raised, reason |-> reason,
     checks |-> checks, pos |-> pos,
     message |-> [prefix |-> "", format |-> IF raised = "none" THEN ""
                                            ELSE "str(e)", arg |-> None]]

\* raise ValidationError(f"..."): the f-string's fixed text with {} where it
\* embeds a value, and the text of that value (None: it embeds nothing)
Raise(reason, format, arg, checks, pos) ==
    [Did("ValidationError", reason, checks, pos) EXCEPT
        !.message = [prefix |-> "", format |-> format, arg |-> arg]]

\* f"{detected_mime}"
format_mime(detected_mime) ==
    IF detected_mime = None THEN <<"N", "o", "n", "e">> ELSE detected_mime

\* line 48
size_error(checks, pos) ==
    Raise("FileTooLarge", "File size exceeds maximum limit of {}MB",
          str(MAX_FILE_SIZE \div (1024 * 1024)), checks, pos)

\* line 52
name_error(checks, pos) ==
    Raise("FilenameTooLong",
          "Filename too long. Maximum length is {} characters",
          str(MAX_FILENAME_LENGTH), checks, pos)

\* lines 76-80: the content check on the sample, and `return True`
check_content(file_content, checked) ==
    IF contains_suspicious_content(file_content)
    THEN Raise("SuspiciousContent", "File contains suspicious content", None,
               Append(checked, "content"), 0)
    ELSE Did("none", "none", Append(checked, "content"), 0)

\* a mutant of the MIME check: its message does not say what was detected
check_mime_fixed_message(detected_mime, file_content, checked) ==
    IF detected_mime \notin AllowedKeys
    THEN Raise("MimeNotAllowed", "File type not allowed", None,
               Append(checked, "mime"), 0)
    ELSE check_content(file_content, Append(checked, "mime"))

\* lines 72-74: the MIME check
check_mime(detected_mime, file_content, checked) ==
    IF detected_mime \notin AllowedKeys
    THEN Raise("MimeNotAllowed", "File type not allowed. Detected: {}",
               format_mime(detected_mime), Append(checked, "mime"), 0)
    ELSE check_content(file_content, Append(checked, "mime"))

\* a mutant of the fallback: what guess_type gave is used as it is
fallback_mime_never(name, guessed) == guessed

\* lines 66-70: the extension-based fallback when nothing was guessed
fallback_mime(name, guessed) ==
    IF guessed = None
    THEN extension_to_mime_get(lower(splitext(name)[2]))
    ELSE guessed

\* lines 60-64: the sample has been read (got); seek(0) and MIME detection
after_read(f, got, checked) ==
    IF f.fault = "seek"
    THEN Did("OSError", "Fault", checked, got.pos)
    ELSE check_mime(fallback_mime(f.name, guess_type(f.name)), got.data, checked)

\* lines 54-60: the extension check, then the read of the sample
check_extension(f, file_extension, checked) ==
    IF file_extension \notin AllowedValues
    THEN Raise("ExtensionNotAllowed", "File type not allowed. Allowed types: {}",
               AllowedValuesJoined, Append(checked, "extension"), f.pos)
    ELSE IF f.fault = "read"
    THEN Did("OSError", "Fault", Append(checked, "extension"), f.pos)
    ELSE after_read(f, read(f, SAMPLE_SIZE), Append(checked, "extension"))

\* a mutant of the try block: filename length is checked before size
validate_file_try_name_first(f) ==
    IF Len(f.name) > MAX_FILENAME_LENGTH
    THEN name_error(<<"name">>, f.pos)
    ELSE IF f.size > MAX_FILE_SIZE
    THEN size_error(<<"name", "size">>, f.pos)
    ELSE check_extension(f, lower(splitext(f.name)[2]), <<"name", "size">>)

\* the try block of validate_file (lines 46-80): the checks in source order.
\* A stream whose read() or seek() fails raises OSError from that call.
validate_file_try(f) ==
    IF f.size > MAX_FILE_SIZE
    THEN size_error(<<"size">>, f.pos)
    ELSE IF Len(f.name) > MAX_FILENAME_LENGTH
    THEN name_error(<<"size", "name">>, f.pos)
    ELSE check_extension(f, lower(splitext(f.name)[2]), <<"size", "name">>)

\* a mutant of the handler: it lets everything but ValidationError pass
except_ValidationError_only(did) == did

\* lines 82-84, `except Exception as e`: whatever the try block raised is
\* raised again as a ValidationError carrying the original message
except_Exception(did) ==
    IF did.raised # "none"
    THEN [did EXCEPT !.raised = "ValidationError",
                     !.message.prefix = "File validation failed: "]
    ELSE did

\* SecureFileUploadMixin.validate_file
validate_file(f) == except_Exception(validate_file_try(f))

----------------------------------------------------------------------------
(* The inputs: uploaded file objects *)

\* n filler characters c
Fill(n, c) == [i \in 1..n |-> c]

\* the name `tail` with "a"s put before it up to len characters
PadTo(tail, len) == Fill(len - Len(tail), "a") \o tail

\* the content `piece` after offset filler bytes
At(offset, piece) == Fill(offset, "x") \o piece

ShortNames ==
    { <<"r","e","s","u","m","e",".","p","d","f">>,       \* resume.pdf
      <<"R","E","S","U","M","E",".","P","D","F">>,       \* RESUME.PDF
      <<"r","e","s","u","m","e",".","e","x","e">>,       \* resume.exe
      <<"r","e","s","u","m","e">>,                       \* resume
      <<"a",".","t","x","t">>,                           \* a.txt
      <<".","p","d","f">>,                               \* .pdf
      <<"c","v",".","d","o","c","x">>,                   \* cv.docx
      <<"c","v",".","d","o","c">>,                       \* cv.doc
      <<"p",".","j","p","g">>,                           \* p.jpg
      <<"p",".","p","n","g">>,                           \* p.png
      <<"p",".","j","p","e","g">>,                       \* p.jpeg
      <<"a",".","p","d","f","/","b">>,                   \* a.pdf/b
      <<"d","/",".","p","n","g">>,                       \* d/.png
      <<"x",".","t","a","r",".","g","z">>,               \* x.tar.gz
      <<"d","a","t","a",":","x",".","p","d","f">>,       \* data:x.pdf
      \* data:image/gif,x.pdf
      <<"d","a","t","a",":","i","m","a","g","e","/","g","i","f",",","x",".","p","d","f">>,
      \* Data:text/html;q,a.TXT
      <<"D","a","t","a",":","t","e","x","t","/","h","t","m","l",";","q",",","a",".","T","X","T">> }

\* names at and beyond the filename limit
LongNames ==
    { PadTo(tail, len) :
        tail \in {EXT_PDF, EXT_EXE, <<".","P","N","G">>},
        len \in MAX_FILENAME_LENGTH..(MAX_FILENAME_LENGTH + Over) }

Names == ShortNames \cup LongNames

\* declared sizes around the size limit
Sizes == {11} \cup (MAX_FILE_SIZE..(MAX_FILE_SIZE + Over))

CleanPieces ==
    { <<>>,
      <<"h","e","l","l","o"," ","w","o","r","l","d">>,   \* hello world
      <<"<","s","c","r","i","p"," ","t",">">> }          \* <scrip t>

MarkerPieces ==
    { <<"<","s","c","r","i","p","t">>,                   \* <script
      <<"<","S","c","R","i","P","t">>,                   \* <ScRiPt
      <<"J","a","v","a","S","c","r","i","p","t",":">>,   \* JavaScript:
      <<"V","B","S","C","R","I","P","T",":">>,           \* VBSCRIPT:
      <<"D","a","t","a",":","T","e","x","t","/","H","T","M","L">>,  \* Data:Text/HTML
      \* data:application/x-JAVASCRIPT
      <<"d","a","t","a",":","a","p","p","l","i","c","a","t","i","o","n","/","x","-","J","A","V","A","S","C","R","I","P","T">> }

\* contents with a piece at the start of the file
StartContents == CleanPieces \cup MarkerPieces

\* contents with a marker ending at the sample boundary, straddling it,
\* and lying wholly behind it
BoundaryContents ==
    { At(SAMPLE_SIZE - Len(piece) + k, piece) :
        piece \in { <<"<","S","c","R","i","P","t">>,
                    <<"V","B","S","C","R","I","P","T",":">> },
        k \in 0..Over } \cup
    { At(SAMPLE_SIZE, <<"<","s","c","r","i","p","t">>) }

\* how the file's stream behaves: it works, read() raises, seek() raises
Faults == {"none", "read", "seek"}

\* an uploaded file object: name, size, the bytes of its stream, the
\* stream position, and the fault its stream has
File(name, size, content, pos, fault) ==
    [name |-> name, size |-> size, content |-> content, pos |-> pos,
     fault |-> fault]

\* uploads as the framework's upload handlers deliver them: at position 0.
\* Every name, size and stream fault with every content at the start of a
\* file; the contents around the sample boundary with a few names.
Uploads ==
    { File(name, size, content, 0, fault) :
        name \in Names, size \in Sizes, content \in StartContents,
        fault \in Faults } \cup
    { File(name, size, content, 0, "none") :
        name \in { <<"r","e","s","u","m","e",".","p","d","f">>,
                   <<"a",".","t","x","t">>,
                   PadTo(EXT_EXE, MAX_FILENAME_LENGTH + 1) },
        size \in Sizes, content \in BoundaryContents }

MimeDbs == {"builtin", "system"}

Users == {"u1", "u2"}

NoCall == Did("none", "nocall", <<>>, 0)
NoProfile == [exists |-> FALSE]
NoRequest == [kind |-> "none"]
NoResponse == [status |-> 0]

\* the rows and the class attributes before any request
RowsInit ==
    /\ documents = <<>>
    /\ userProfiles = [u \in Users |-> NoProfile]
    /\ accepted = {}
    /\ request = NoRequest
    /\ response = NoResponse
    /\ users = Users
    /\ userGoals = {}
    /\ parsedProfiles = [u \in Users |-> NoProfile]
    /\ lastDocumentId = 0
    /\ classAttrs = ClassAttrs

\* the stores before any request, with no validate_file call running
StoresInit ==
    /\ RowsInit
    /\ frames = <<>>

\* the rows the profile handlers keep
profileRows == <<users, userGoals, parsedProfiles>>

\* the state of calls that run concurrently
running == <<frames, classAttrs>>

stores == <<documents, userProfiles, accepted, request, response,
            profileRows, lastDocumentId, running>>

----------------------------------------------------------------------------
(* SpecValidate: validate_file applied to one upload as delivered *)

InitValidate ==
    /\ upload \in Uploads
    /\ mimeDb \in MimeDbs
    /\ outcome = NoCall
    /\ calls = <<>>
    /\ StoresInit

\* the call has been made: what it did is recorded, the stream is where
\* the call left it
Returned(did) ==
    /\ outcome' = did
    /\ calls' = Append(calls, [before |-> upload.pos, did |-> did])
    /\ upload' = [upload EXCEPT !.pos = did.pos]

\* self.validate_file(uploaded_file)
Validate ==
    /\ outcome = NoCall
    /\ Returned(validate_file(upload))
    /\ UNCHANGED <<mimeDb, stores>>

NextValidate == Validate

SpecValidate == InitValidate /\ [][NextValidate]_vars

----------------------------------------------------------------------------
(* What the claims speak of, stated without the validator's operators *)

\* validate_file has been called on upload
Called == outcome.reason # "nocall"

TenMiB == 10 * 1024 * 1024

SCRIPT_MARKER == <<"<","s","c","r","i","p","t">>

SixExtensions == {EXT_PDF, EXT_DOC, EXT_DOCX, EXT_TXT, EXT_JPG, EXT_PNG}

\* <script, javascript:, vbscript:, data:text/html,
\* data:application/x-javascript
FiveMarkers ==
    { SCRIPT_MARKER,
      <<"j","a","v","a">> \o <<"s","c","r","i","p","t",":">>,
      <<"v","b">> \o <<"s","c","r","i","p","t",":">>,
      <<"d","a","t","a",":">> \o <<"t","e","x","t","/","h","t","m","l">>,
      <<"d","a","t","a",":">> \o <<"a","p","p","l","i","c","a","t","i","o","n","/">>
          \o <<"x","-","j","a","v","a">> \o <<"s","c","r","i","p","t">> }

\* the part of a name from its last dot on; empty when it has no dot
SuffixAfterLastDot(name) ==
    LET dot == rfind(name, ".")
    IN  IF dot = 0 THEN <<>> ELSE SubSeq(name, dot, Len(name))

\* the extension of a name: of its last path component, the part from the
\* last dot that has a character other than a dot before it
Extension(name) ==
    LET comp == SubSeq(name, rfind(name, "/") + 1, Len(name))
        dots == {i \in 1..Len(comp) :
                    comp[i] = "." /\ \E k \in 1..(i - 1) : comp[k] # "."}
    IN  IF dots = {} THEN <<>>
        ELSE SubSeq(comp, CHOOSE i \in dots : \A j \in dots : j <= i, Len(comp))

\* the first 2048 bytes of a file
First2048(content) ==
    SubSeq(content, 1, IF Len(content) < 2048 THEN Len(content) ELSE 2048)

\* text holds one of the five markers in some mix of upper and lower case
HoldsMarker(text) ==
    \E m \in FiveMarkers :
        \E i \in 0..(Len(text) - Len(m)) :
            \A j \in 1..Len(m) : LowerChar(text[i + j]) = m[j]

\* the MIME type the validator derives from a name that passed the
\* extension check
DerivedMime(name) ==
    IF guess_type(name) # None THEN guess_type(name)
    ELSE extension_to_mime_get(lower(Extension(name)))

----------------------------------------------------------------------------
(* C1-C6: the checks of validate_file (under SpecValidate) *)

\* C1: every file whose declared size exceeds 10*1024*1024 bytes is rejected
\* with FileTooLarge, whatever its name, extension, content and stream are.
C1_TooLargeRejected ==
    (Called /\ upload.size > TenMiB)
        => /\ outcome.raised = "ValidationError"
           /\ outcome.reason = "FileTooLarge"

\* C1 witness: an oversized file with an allowed extension and clean
\* content has been validated
C1_Witness ==
    /\ Called
    /\ upload.size > TenMiB
    /\ lower(Extension(upload.name)) \in SixExtensions
    /\ ~HoldsMarker(First2048(upload.content))

\* C2: every file whose name is longer than 255 characters is rejected;
\* with a declared size within 10 MiB the reason is FilenameTooLong.
C2_LongNameRejected ==
    (Called /\ Len(upload.name) > 255)
        => /\ outcome.raised = "ValidationError"
           /\ ~outcome.returned
           /\ upload.size <= TenMiB => outcome.reason = "FilenameTooLong"

\* C2 witness: a 256-character name with an allowed extension and a size
\* within the limit has been validated
C2_Witness ==
    /\ Called
    /\ Len(upload.name) = 256
    /\ upload.size <= TenMiB
    /\ lower(Extension(upload.name)) = EXT_PDF

\* C3 as stated: within the size and name limits, the file is rejected with
\* ExtensionNotAllowed exactly when the lowercased part of the name after
\* its last dot is not one of the six extensions.
C3_LastDotSuffix ==
    (Called /\ upload.size <= TenMiB /\ Len(upload.name) <= 255)
        => (outcome.reason = "ExtensionNotAllowed"
              <=> lower(SuffixAfterLastDot(upload.name)) \notin SixExtensions)

\* C3 amended: within the size and name limits, the file is rejected with
\* ExtensionNotAllowed exactly when its lowercased extension - the part of
\* the last path component from its last dot on, leading dots aside - is
\* not one of the six extensions.
C3_ExtensionChecked ==
    (Called /\ upload.size <= TenMiB /\ Len(upload.name) <= 255)
        => (outcome.reason = "ExtensionNotAllowed"
              <=> lower(Extension(upload.name)) \notin SixExtensions)

\* C3 witness: a name with an upper-case extension has passed the
\* extension check
C3_Witness ==
    /\ Called
    /\ upload.size <= TenMiB /\ Len(upload.name) <= 255
    /\ Extension(upload.name) = <<".","P","D","F">>
    /\ outcome.reason # "ExtensionNotAllowed"

\* C4: a file that is not rejected by the size, filename-length, extension
\* or MIME check, and whose stream can be read, is rejected with
\* SuspiciousContent whenever its first 2048 bytes hold one of the five
\* markers in any mix of upper and lower case.
C4_MarkerRejected ==
    ( /\ Called
      /\ upload.fault = "none"
      /\ outcome.reason \notin {"FileTooLarge", "FilenameTooLong",
                                "ExtensionNotAllowed", "MimeNotAllowed"}
      /\ HoldsMarker(First2048(upload.content)) )
        => /\ outcome.raised = "ValidationError"
           /\ outcome.reason = "SuspiciousContent"

\* C4 witness: a file with a mixed-case marker that ends exactly at byte
\* 2048 has been rejected for its content
C4_Witness ==
    /\ Called
    /\ outcome.reason = "SuspiciousContent"
    /\ Len(upload.content) = 2048
    /\ ~HoldsMarker(SubSeq(upload.content, 1, 2047))
    /\ upload.content # lower(upload.content)

\* C5 as stated, for streams that can be read: every file of at most 10 MiB
\* with a name of at most 255 characters, an allowed lowercased extension
\* and no marker in its first 2048 bytes is accepted.
C5_AcceptedWithoutMime ==
    ( /\ Called
      /\ upload.fault = "none"
      /\ upload.size <= TenMiB
      /\ Len(upload.name) <= 255
      /\ lower(Extension(upload.name)) \in SixExtensions
      /\ ~HoldsMarker(First2048(upload.content)) )
        => outcome.returned

\* C5 amended: every file of at most 10 MiB with a name of at most 255
\* characters, an allowed lowercased extension, a derived MIME type among
\* the six allow-list keys, a stream that can be read and reset, and no
\* marker in its first 2048 bytes is accepted: validate_file returns True
\* and raises nothing.
C5_Accepted ==
    ( /\ Called
      /\ upload.fault = "none"
      /\ upload.size <= TenMiB
      /\ Len(upload.name) <= 255
      /\ lower(Extension(upload.name)) \in SixExtensions
      /\ DerivedMime(upload.name) \in AllowedKeys
      /\ ~HoldsMarker(First2048(upload.content)) )
        => /\ outcome.returned
           /\ outcome.raised = "none"

\* C5 witness: a file of exactly 10 MiB with a 255-character name has been
\* accepted
C5_Witness ==
    /\ Called
    /\ upload.size = TenMiB
    /\ Len(upload.name) = 255
    /\ outcome.returned

\* the checks in the order the claim gives them
CheckOrder == <<"size", "name", "extension", "mime", "content">>

ReasonOf ==
    [size |-> "FileTooLarge", name |-> "FilenameTooLong",
     extension |-> "ExtensionNotAllowed", mime |-> "MimeNotAllowed",
     content |-> "SuspiciousContent"]

\* the checks a file fails, each judged on its own
Fails(f) ==
    [size |-> f.size > TenMiB,
     name |-> Len(f.name) > 255,
     extension |-> lower(Extension(f.name)) \notin SixExtensions,
     mime |-> DerivedMime(f.name) \notin AllowedKeys,
     content |-> HoldsMarker(First2048(f.content))]

\* the place in CheckOrder of the first check the file fails; 6 when none
FirstFailing(f) ==
    LET failing == {i \in 1..5 : Fails(f)[CheckOrder[i]]}
    IN  IF failing = {} THEN 6
        ELSE CHOOSE i \in failing : \A j \in failing : i <= j

\* C6: the checks run in the order size, filename length, extension, MIME,
\* content and stop at the first failure: the reason reported is that of
\* the earliest failing check, and the checks evaluated are exactly those
\* up to it. (A stream that cannot be read stops the call after the
\* extension check.)
C6_EarliestFailureReported ==
    Called =>
        LET first == FirstFailing(upload)
            reach == IF upload.fault = "none" THEN 5 ELSE 3
        IN  IF first <= reach
            THEN /\ outcome.reason = ReasonOf[CheckOrder[first]]
                 /\ outcome.checks = SubSeq(CheckOrder, 1, first)
            ELSE /\ outcome.checks = SubSeq(CheckOrder, 1, reach)
                 /\ outcome.reason =
                        IF upload.fault = "none" THEN "none" ELSE "Fault"

\* C6 witness: a file that fails the size, the filename-length, the
\* extension and the content check has been rejected
C6_Witness ==
    /\ Called
    /\ Fails(upload).size /\ Fails(upload).name
    /\ Fails(upload).extension /\ Fails(upload).content

----------------------------------------------------------------------------
(* C11, C13, C16: MIME detection and the messages (under SpecValidate) *)

SixKeys == {PDF_MIME, DOC_MIME, DOCX_MIME, TXT_MIME, JPEG_MIME, PNG_MIME}

\* the allow-list read from extension to MIME type
ReverseLookup ==
    (EXT_PDF :> PDF_MIME) @@ (EXT_DOC :> DOC_MIME) @@ (EXT_DOCX :> DOCX_MIME) @@
    (EXT_TXT :> TXT_MIME) @@ (EXT_JPG :> JPEG_MIME) @@ (EXT_PNG :> PNG_MIME)

\* the file has passed the size, filename-length and extension checks
PassedExtensionCheck(f) ==
    /\ f.size <= TenMiB
    /\ Len(f.name) <= 255
    /\ lower(Extension(f.name)) \in SixExtensions

\* the MIME type the claim describes: the one derived from the filename,
\* and the reverse lookup of the extension only when there is none
ResultingMime(name) ==
    IF guess_type(name) # None THEN guess_type(name)
    ELSE ReverseLookup[lower(Extension(name))]

\* C11: a file that passed the size, filename-length and extension checks
\* (and whose stream can be read) is rejected with MimeNotAllowed exactly
\* when the MIME type derived from its filename - or, only when that
\* derivation yields nothing, the reverse lookup of its extension - is not
\* one of the six allow-list keys.
C11_MimeChecked ==
    (Called /\ upload.fault = "none" /\ PassedExtensionCheck(upload))
        => (outcome.reason = "MimeNotAllowed"
              <=> ResultingMime(upload.name) \notin SixKeys)

\* C11 witness: a file whose name yields no MIME type has been accepted on
\* the reverse lookup of its extension .docx
C11_Witness ==
    /\ Called
    /\ upload.fault = "none"
    /\ PassedExtensionCheck(upload)
    /\ guess_type(upload.name) = None
    /\ lower(Extension(upload.name)) = EXT_DOCX
    /\ outcome.returned

FiveReasons ==
    {"FileTooLarge", "FilenameTooLong", "ExtensionNotAllowed",
     "MimeNotAllowed", "SuspiciousContent"}

\* C13 as stated: every rejection for one of the five reasons carries a
\* message that embeds the limit exceeded or the value detected.
C13_MessageEmbedsValue ==
    (Called /\ outcome.reason \in FiveReasons)
        => outcome.message.arg # None

\* C13 amended: the message of a FileTooLarge rejection embeds the limit in
\* MB (10), that of FilenameTooLong the limit 255, that of
\* ExtensionNotAllowed the allowed extensions, that of MimeNotAllowed the
\* MIME type detected; the message of a SuspiciousContent rejection is a
\* fixed text that embeds nothing. Each follows "File validation failed: ".
C13_MessageOfReason ==
    (Called /\ outcome.reason \in FiveReasons)
        => /\ outcome.message.prefix = "File validation failed: "
           /\ outcome.reason = "FileTooLarge"
                => outcome.message.arg = <<"1","0">>
           /\ outcome.reason = "FilenameTooLong"
                => outcome.message.arg = <<"2","5","5">>
           /\ outcome.reason = "ExtensionNotAllowed"
                => outcome.message.arg =
                     <<".","p","d","f",","," ",".","d","o","c",","," ",
                       ".","d","o","c","x",","," ",".","t","x","t",","," ",
                       ".","j","p","g",","," ",".","p","n","g">>
           /\ outcome.reason = "MimeNotAllowed"
                => /\ outcome.message.arg # None
                   /\ outcome.message.arg = guess_type(upload.name)
           /\ outcome.reason = "SuspiciousContent"
                => /\ outcome.message.arg = None
                   /\ outcome.message.format = "File contains suspicious content"

\* C13 witness: a file has been rejected with a message that names the MIME
\* type image/gif detected for it
C13_Witness ==
    /\ Called
    /\ outcome.reason = "MimeNotAllowed"
    /\ outcome.message.arg = GIF_MIME

\* C16: the six extensions of the allow-list are pairwise distinct, and a
\* file that passed the size, filename-length and extension checks and for
\* whose name MIME detection yields nothing is never rejected with
\* MimeNotAllowed: with a readable stream its rejection, if any, is for its
\* content.
C16_FallbackAlwaysAllowed ==
    /\ \A i, j \in DOMAIN ALLOWED_FILE_TYPES :
          ALLOWED_FILE_TYPES[i].ext = ALLOWED_FILE_TYPES[j].ext => i = j
    /\ (Called /\ PassedExtensionCheck(upload) /\ guess_type(upload.name) = None)
          => /\ outcome.reason # "MimeNotAllowed"
             /\ upload.fault = "none"
                  => outcome.reason \in {"none", "SuspiciousContent"}

\* C16 witness: a file named as a data URL without a media type, for which
\* detection yields nothing, has been accepted
C16_Witness ==
    /\ Called
    /\ PassedExtensionCheck(upload)
    /\ guess_type(upload.name) = None
    /\ splittype(upload.name)[1] = <<"d","a","t","a">>
    /\ outcome.returned

\* the file with its content cut after the first 2048 bytes, before any call
CutAfter2048(f, pos) ==
    File(f.name, f.size, First2048(f.content), pos, f.fault)

\* C15: the outcome for an upload is the outcome for the file of the same
\* name and declared size that holds only its first 2048 bytes, so two
\* files that agree in name, size and first 2048 bytes get the same
\* outcome; a file without a marker in its first 2048 bytes is not rejected
\* with SuspiciousContent, wherever else it holds one.
C15_OnlyFirst2048Matter ==
    Called =>
        /\ outcome = validate_file(CutAfter2048(upload, calls[1].before))
        /\ ~HoldsMarker(First2048(upload.content))
              => outcome.reason # "SuspiciousContent"

\* C15 witness: a file with a marker that straddles the 2048-byte boundary
\* has been accepted
C15_Witness ==
    /\ Called
    /\ Len(upload.content) > 2048
    /\ HoldsMarker(SubSeq(upload.content, 2040, Len(upload.content)))
    /\ ~HoldsMarker(SubSeq(upload.content, 2049, Len(upload.content)))
    /\ ~HoldsMarker(First2048(upload.content))
    /\ outcome.returned

----------------------------------------------------------------------------
(* SpecStream: validate_file called, also repeatedly, on a file object     *)
(* whose stream the caller may have read from before                       *)

StreamUploads ==
    { File(name, size, content, 0, "none") :
        name \in { <<"r","e","s","u","m","e",".","p","d","f">>,
                   <<"r","e","s","u","m","e",".","e","x","e">>,
                   <<"a",".","t","x","t">> },
        size \in {11, MAX_FILE_SIZE + 1},
        content \in StartContents }

InitStream ==
    /\ upload \in StreamUploads
    /\ mimeDb \in MimeDbs
    /\ outcome = NoCall
    /\ calls = <<>>
    /\ StoresInit

\* the caller moves the stream (uploaded_file.read / uploaded_file.seek)
Seek(p) ==
    /\ p # upload.pos
    /\ upload' = [upload EXCEPT !.pos = p]
    /\ outcome' = NoCall
    /\ calls' = <<>>
    /\ UNCHANGED <<mimeDb, stores>>

\* self.validate_file(uploaded_file), once more on the same object
ValidateAgain ==
    /\ Len(calls) < MaxCalls
    /\ Returned(validate_file(upload))
    /\ UNCHANGED <<mimeDb, stores>>

NextStream ==
    \/ \E p \in 0..MaxPos : Seek(p)
    \/ ValidateAgain

SpecStream == InitStream /\ [][NextStream]_vars

\* C8 as stated: after any call of validate_file, accepting or rejecting,
\* the stream position is what it was before the call, for every starting
\* position.
C8_PositionRestored ==
    \A i \in 1..Len(calls) : calls[i].did.pos = calls[i].before

\* C9 as stated: two calls of validate_file in a row on the same file
\* object have the same outcome - both accept, or both reject for the same
\* reason - for every file and every initial stream position.
C9_SameOutcomeTwice ==
    \A i \in 1..(Len(calls) - 1) :
        /\ calls[i].did.returned = calls[i + 1].did.returned
        /\ calls[i].did.raised = calls[i + 1].did.raised
        /\ calls[i].did.reason = calls[i + 1].did.reason

----------------------------------------------------------------------------
(* Spec: the request handlers that take uploaded files *)

HELLO == <<"h","e","l","l","o"," ","w","o","r","l","d">>
SCRIPT == <<"<","s","c","r","i","p","t">>
RESUME_PDF == <<"r","e","s","u","m","e",".","p","d","f">>
RESUME_EXE == <<"r","e","s","u","m","e",".","e","x","e">>

\* the files requests carry, as the upload handlers deliver them
RequestFiles ==
    { File(RESUME_PDF, 11, HELLO, 0, "none"),
      File(RESUME_PDF, 11, SCRIPT, 0, "none"),
      File(RESUME_EXE, 11, HELLO, 0, "none"),
      File(RESUME_PDF, MAX_FILE_SIZE + 1, HELLO, 0, "none"),
      File(RESUME_PDF, 11, HELLO, 0, "read"),
      File(RESUME_PDF, 11, HELLO, 0, "seek") }

NoFile == [name |-> None]

\* the values of a text field of request.data; None when it is absent
TextValues == {None, <<"A","n","n">>}

Init ==
    /\ upload = NoFile
    /\ mimeDb \in MimeDbs
    /\ outcome = NoCall
    /\ calls = <<>>
    /\ StoresInit

\* Response(body, status=...)
Response(status, body) == [status |-> status, body |-> body]

\* a mutant of DocumentUploadView.post: `except Exception` comes before
\* `except ValidationError`, so a rejection is answered with 500
post_validated_except_Exception_first(user, file, valid, did) ==
    /\ outcome' = did
    /\ upload' = [file EXCEPT !.pos = did.pos]
    /\ accepted' = IF did.returned THEN accepted \cup {file} ELSE accepted
    /\ IF did.raised # "none"
       THEN /\ response' = [status |-> 500, body |-> "Document upload failed"]
            /\ UNCHANGED <<documents, lastDocumentId>>
       ELSE IF valid
       THEN /\ documents' = Append(documents,
                                   [id |-> lastDocumentId + 1,
                                    user |-> user,
                                    file |-> file,
                                    processing_status |-> "uploaded",
                                    processed_at |-> None])
            /\ lastDocumentId' = lastDocumentId + 1
            /\ response' = [status |-> 200, body |-> "Document uploaded successfully"]
       ELSE /\ response' = [status |-> 400, body |-> "serializer.errors"]
            /\ UNCHANGED <<documents, lastDocumentId>>

\* DocumentUploadView.post after self.validate_file(uploaded_file), which
\* did `did`: lines 182-210
post_validated(user, file, valid, did) ==
    /\ outcome' = did
    /\ upload' = [file EXCEPT !.pos = did.pos]
    /\ accepted' = IF did.returned THEN accepted \cup {file} ELSE accepted
    /\ IF did.raised = "ValidationError"
       THEN /\ response' = Response(400, did.message)
            /\ UNCHANGED <<documents, lastDocumentId>>
       ELSE IF did.raised # "none"
       THEN /\ response' = Response(500, "Document upload failed")
            /\ UNCHANGED <<documents, lastDocumentId>>
       ELSE IF valid
       THEN /\ documents' = Append(documents,
                                   [id |-> lastDocumentId + 1,
                                    user |-> user,
                                    file |-> file,
                                    processing_status |-> "uploaded",
                                    processed_at |-> None])
            /\ lastDocumentId' = lastDocumentId + 1
            /\ response' = Response(200, "Document uploaded successfully")
       ELSE /\ response' = Response(400, "serializer.errors")
            /\ UNCHANGED <<documents, lastDocumentId>>

\* DocumentUploadView.post. `file` is request.FILES["file"], or NoFile when
\* the request carries none; `valid` is what serializer.is_valid() answers
\* for request.data.
DocumentUploadView_post(user, file, valid) ==
    /\ request' = [kind |-> "document_upload", user |-> user]
    /\ UNCHANGED <<mimeDb, userProfiles, calls, profileRows, running>>
    /\ IF file = NoFile
       THEN /\ response' = Response(400, "No file provided")
            /\ upload' = NoFile
            /\ outcome' = NoCall
            /\ UNCHANGED <<documents, lastDocumentId, accepted>>
       ELSE post_validated(user, file, valid, validate_file(file))

\* manage_personal_profile, GET
manage_personal_profile_get(user) ==
    /\ request' = [kind |-> "personal_profile_get", user |-> user]
    /\ response' = IF userProfiles[user].exists
                   THEN Response(200, "data")
                   ELSE Response(404, "No profile found")
    /\ upload' = NoFile
    /\ outcome' = NoCall
    /\ UNCHANGED <<calls, mimeDb, documents, userProfiles, accepted,
                   profileRows, lastDocumentId, running>>

\* UserProfile.objects.get_or_create(user=request.user, defaults={})[0]
get_or_create(user) ==
    IF userProfiles[user].exists THEN userProfiles[user]
    ELSE [exists |-> TRUE, name |-> None, cv_file |-> None,
          cv_filename |-> None]

\* lines 682-693: the text fields and the CV are set on the profile
set_fields(profile, name, file) ==
    [profile EXCEPT
        !.name = IF name # None THEN name ELSE @,
        !.cv_file = IF file # NoFile
                    THEN read(file, Len(file.content)).data ELSE @,
        !.cv_filename = IF file # NoFile THEN file.name ELSE @]

\* manage_personal_profile, POST. `name` stands for the text fields of
\* request.data (None: absent); `file` is request.FILES["cv_file"], or
\* NoFile. validate_file is not called here.
manage_personal_profile_post(user, name, file) ==
    /\ request' = [kind |-> "personal_profile_post", user |-> user]
    /\ outcome' = NoCall
    /\ UNCHANGED <<calls, mimeDb, documents, accepted, profileRows,
                   lastDocumentId, running>>
    /\ IF file # NoFile /\ file.fault = "read"
       THEN \* uploaded_file.read() raises: the row get_or_create made stays
            /\ userProfiles' = [userProfiles EXCEPT ![user] = get_or_create(user)]
            /\ upload' = file
            /\ response' = Response(500, "Failed to manage personal profile")
       ELSE /\ userProfiles' =
                [userProfiles EXCEPT
                    ![user] = set_fields(get_or_create(user), name, file)]
            /\ upload' = IF file = NoFile THEN NoFile
                         ELSE [file EXCEPT
                                 !.pos = read(file, Len(file.content)).pos]
            /\ response' = Response(IF userProfiles[user].exists THEN 200 ELSE 201,
                                    "data")

Next ==
    \/ \E user \in Users, file \in RequestFiles \cup {NoFile}, valid \in BOOLEAN :
          /\ lastDocumentId < MaxDocs
          /\ DocumentUploadView_post(user, file, valid)
    \/ \E user \in Users : manage_personal_profile_get(user)
    \/ \E user \in Users, name \in TextValues, file \in RequestFiles \cup {NoFile} :
          manage_personal_profile_post(user, name, file)

Spec == Init /\ [][Next]_vars

\* C7 as stated: a file is stored (as a Document's file, or as a profile's
\* cv_file) only after validate_file has accepted that file.
C7_StoredOnlyIfAccepted ==
    /\ \A i \in 1..Len(documents) : documents[i].file \in accepted
    /\ \A u \in Users :
          (userProfiles[u].exists /\ userProfiles[u].cv_filename # None)
              => \E f \in accepted : /\ f.name = userProfiles[u].cv_filename
                                     /\ f.content = userProfiles[u].cv_file

\* C10: when reading the sample or resetting the stream raises, validate_file
\* ends with a ValidationError, not with the fault itself, and
\* DocumentUploadView.post answers 400 with the error and creates no
\* Document.
C10_FaultBecomesValidationError ==
    ( /\ request.kind = "document_upload"
      /\ upload # NoFile
      /\ upload.fault # "none"
      /\ upload.size <= TenMiB
      /\ Len(upload.name) <= 255
      /\ lower(Extension(upload.name)) \in SixExtensions )
        => /\ outcome.raised = "ValidationError"
           /\ outcome.reason = "Fault"
           /\ ~outcome.returned
           /\ response.status = 400
           /\ \A i \in 1..Len(documents) :
                  documents[i].file # [upload EXCEPT !.pos = 0]

\* C10 witness: a document upload whose stream could not be reset after the
\* sample was read has been answered
C10_Witness ==
    /\ request.kind = "document_upload"
    /\ upload # NoFile
    /\ upload.fault = "seek"
    /\ outcome.reason = "Fault"
    /\ response.status = 400

----------------------------------------------------------------------------
(* SpecConcurrent: validate_file calls of concurrent requests, each on its *)
(* own file object, interleaved statement by statement. The class          *)
(* attributes are the state the calls share; everything else a call uses   *)
(* is local to it.                                                         *)

Threads == 1..MaxThreads

DATA_GIF_PDF ==
    <<"d","a","t","a",":","i","m","a","g","e","/","g","i","f",",","x",".","p","d","f">>

\* the files of the concurrent requests
ConcurrentFiles ==
    { File(<<"c","v",".","d","o","c","x">>, 11, HELLO, 0, "none"),
      File(RESUME_PDF, 11, SCRIPT, 0, "none"),
      File(RESUME_EXE, 11, HELLO, 0, "none"),
      File(RESUME_PDF, MAX_FILE_SIZE + 1, HELLO, 0, "none"),
      File(DATA_GIF_PDF, 11, HELLO, 0, "none"),
      File(RESUME_PDF, 11, HELLO, 0, "seek") }

\* the frame of a validate_file call on uploaded_file: its local variables
\* and the statement it is at
Frame(uploaded_file) ==
    [given |-> uploaded_file, uploaded_file |-> uploaded_file, pc |-> "size",
     file_extension |-> None, file_content |-> None, detected_mime |-> None,
     checks |-> <<>>, did |-> NoCall]

InitConcurrent ==
    /\ upload = NoFile
    /\ mimeDb \in MimeDbs
    /\ outcome = NoCall
    /\ calls = <<>>
    /\ RowsInit
    /\ frames \in [Threads -> {Frame(f) : f \in ConcurrentFiles}]

\* a raise inside the try block: control goes to the except clause
raise(frame, did) == [frame EXCEPT !.pc = "except", !.did = did]

\* the call of thread t moves on to frame `next`
Step(t, pc, next) ==
    /\ frames[t].pc = pc
    /\ frames' = [frames EXCEPT ![t] = next]
    /\ UNCHANGED <<upload, outcome, calls, mimeDb, documents, userProfiles,
                   accepted, request, response, profileRows, lastDocumentId>>

\* the values and the keys of the shared dict ALLOWED_FILE_TYPES
values(allowed) == {allowed[i].ext : i \in DOMAIN allowed}
keys(allowed) == {allowed[i].mime : i \in DOMAIN allowed}

\* lines 47-48
line_47(t) ==
    LET frame == [frames[t] EXCEPT !.checks = Append(@, "size")]
    IN  /\ Step(t, "size",
                IF frame.uploaded_file.size > classAttrs.MAX_FILE_SIZE
                THEN raise(frame, size_error(frame.checks, frame.uploaded_file.pos))
                ELSE [frame EXCEPT !.pc = "name"])
        /\ UNCHANGED classAttrs

\* lines 51-52
line_51(t) ==
    LET frame == [frames[t] EXCEPT !.checks = Append(@, "name")]
    IN  /\ Step(t, "name",
                IF Len(frame.uploaded_file.name) > classAttrs.MAX_FILENAME_LENGTH
                THEN raise(frame, name_error(frame.checks, frame.uploaded_file.pos))
                ELSE [frame EXCEPT !.pc = "extension"])
        /\ UNCHANGED classAttrs

\* lines 55-57
line_55(t) ==
    LET frame == [frames[t] EXCEPT
                    !.checks = Append(@, "extension"),
                    !.file_extension = lower(splitext(frames[t].uploaded_file.name)[2])]
        allowed == classAttrs.ALLOWED_FILE_TYPES
    IN  /\ Step(t, "extension",
                IF frame.file_extension \notin values(allowed)
                THEN raise(frame,
                           Raise("ExtensionNotAllowed",
                                 "File type not allowed. Allowed types: {}",
                                 join([i \in DOMAIN allowed |-> allowed[i].ext]),
                                 frame.checks, frame.uploaded_file.pos))
                ELSE [frame EXCEPT !.pc = "read"])
        /\ UNCHANGED classAttrs

\* line 60: file_content = uploaded_file.read(2048)
line_60(t) ==
    LET frame == frames[t]
        got == read(frame.uploaded_file, SAMPLE_SIZE)
    IN  /\ Step(t, "read",
                IF frame.uploaded_file.fault = "read"
                THEN raise(frame, Did("OSError", "Fault", frame.checks,
                                      frame.uploaded_file.pos))
                ELSE [frame EXCEPT !.file_content = got.data,
                                   !.uploaded_file.pos = got.pos,
                                   !.pc = "seek"])
        /\ UNCHANGED classAttrs

\* line 61: uploaded_file.seek(0)
line_61(t) ==
    LET frame == frames[t]
    IN  /\ Step(t, "seek",
                IF frame.uploaded_file.fault = "seek"
                THEN raise(frame, Did("OSError", "Fault", frame.checks,
                                      frame.uploaded_file.pos))
                ELSE [frame EXCEPT !.uploaded_file.pos = 0, !.pc = "guess"])
        /\ UNCHANGED classAttrs

\* lines 64-67: detected_mime, _ = mimetypes.guess_type(uploaded_file.name)
line_64(t) ==
    LET frame == [frames[t] EXCEPT
                    !.detected_mime = guess_type(frames[t].uploaded_file.name)]
    IN  /\ Step(t, "guess",
                [frame EXCEPT !.pc = IF frame.detected_mime = None
                                     THEN "fallback" ELSE "mime"])
        /\ UNCHANGED classAttrs

\* a mutant of line 69: the reversed entries are added to the shared dict
\* (extension_to_mime = self.ALLOWED_FILE_TYPES; extension_to_mime.update(...))
extension_to_mime_in_place(allowed) ==
    LET both == allowed \o [i \in DOMAIN allowed |->
                              [mime |-> allowed[i].ext, ext |-> allowed[i].mime]]
    IN  [local |-> [i \in DOMAIN both |->
                      [key |-> both[i].mime, value |-> both[i].ext]],
         shared |-> both]

\* line 69: extension_to_mime = {v: k for k, v in ALLOWED_FILE_TYPES.items()},
\* a new dict local to the call; the shared dict is only read
extension_to_mime_build(allowed) ==
    [local |-> [i \in DOMAIN allowed |->
                  [key |-> allowed[i].ext, value |-> allowed[i].mime]],
     shared |-> allowed]

\* d.get(k) of a dict given as its items in insertion order
dict_get(d, k) ==
    LET hits == {i \in DOMAIN d : d[i].key = k}
    IN  IF hits = {} THEN None
        ELSE d[CHOOSE i \in hits : \A j \in hits : j <= i].value

\* lines 68-70
line_68(t) ==
    LET frame == [frames[t] EXCEPT
                    !.file_extension = lower(splitext(frames[t].uploaded_file.name)[2])]
        built == extension_to_mime_build(classAttrs.ALLOWED_FILE_TYPES)
    IN  /\ Step(t, "fallback",
                [frame EXCEPT
                    !.detected_mime = dict_get(built.local, frame.file_extension),
                    !.pc = "mime"])
        /\ classAttrs' = [classAttrs EXCEPT !.ALLOWED_FILE_TYPES = built.shared]

\* lines 73-74
line_73(t) ==
    LET frame == [frames[t] EXCEPT !.checks = Append(@, "mime")]
    IN  /\ Step(t, "mime",
                IF frame.detected_mime \notin keys(classAttrs.ALLOWED_FILE_TYPES)
                THEN raise(frame,
                           Raise("MimeNotAllowed",
                                 "File type not allowed. Detected: {}",
                                 format_mime(frame.detected_mime),
                                 frame.checks, frame.uploaded_file.pos))
                ELSE [frame EXCEPT !.pc = "content"])
        /\ UNCHANGED classAttrs

\* lines 77-80
line_77(t) ==
    LET frame == [frames[t] EXCEPT !.checks = Append(@, "content")]
    IN  /\ Step(t, "content",
                IF contains_suspicious_content(frame.file_content)
                THEN raise(frame,
                           Raise("SuspiciousContent",
                                 "File contains suspicious content", None,
                                 frame.checks, frame.uploaded_file.pos))
                ELSE [frame EXCEPT
                        !.did = Did("none", "none", frame.checks,
                                    frame.uploaded_file.pos),
                        !.pc = "done"])
        /\ UNCHANGED classAttrs

\* lines 82-84
line_82(t) ==
    /\ Step(t, "except",
            [frames[t] EXCEPT !.did = except_Exception(@), !.pc = "done"])
    /\ UNCHANGED classAttrs

NextConcurrent ==
    \E t \in Threads :
        \/ line_47(t)
        \/ line_51(t)
        \/ line_55(t)
        \/ line_60(t)
        \/ line_61(t)
        \/ line_64(t)
        \/ line_68(t)
        \/ line_73(t)
        \/ line_77(t)
        \/ line_82(t)

SpecConcurrent == InitConcurrent /\ [][NextConcurrent]_vars

\* C14: under every interleaving of concurrent validate_file calls on
\* distinct file objects, the shared class attributes stay as they were -
\* ALLOWED_FILE_TYPES keeps its six entries - and every call that has ended
\* did what validate_file does for its file when run alone.
C14_CallsIndependent ==
    /\ classAttrs.ALLOWED_FILE_TYPES = ALLOWED_FILE_TYPES
    /\ Len(classAttrs.ALLOWED_FILE_TYPES) = 6
    /\ classAttrs.MAX_FILE_SIZE = TenMiB
    /\ classAttrs.MAX_FILENAME_LENGTH = 255
    /\ \A t \in Threads :
          frames[t].pc = "done"
              => frames[t].did = validate_file(frames[t].given)

\* C14 witness: two calls have ended, one accepting on the reverse lookup
\* and one rejecting, after the second started while the first was running
C14_Witness ==
    /\ frames[1].pc = "done" /\ frames[2].pc = "done"
    /\ frames[1].did.returned
    /\ guess_type(frames[1].given.name) = None
    /\ frames[2].did.reason = "SuspiciousContent"

----------------------------------------------------------------------------
(* SpecApi: document upload, update_parsed_profile and delete_user *)

\* the files of the upload requests: one that validate_file accepts and one
\* for each reason it rejects for
ApiFiles ==
    { File(RESUME_PDF, 11, HELLO, 0, "none"),
      File(RESUME_PDF, MAX_FILE_SIZE + 1, HELLO, 0, "none"),
      File(PadTo(EXT_PDF, MAX_FILENAME_LENGTH + 1), 11, HELLO, 0, "none"),
      File(RESUME_EXE, 11, HELLO, 0, "none"),
      File(DATA_GIF_PDF, 11, HELLO, 0, "none"),
      File(RESUME_PDF, 11, SCRIPT, 0, "none") }

\* request.data['document_id']: absent, an id (of a row or of none), or a
\* value that is no id at all
DocumentIdValues ==
    { [given |-> FALSE, wellformed |-> TRUE, id |-> 0],
      [given |-> TRUE, wellformed |-> FALSE, id |-> 0] } \cup
    { [given |-> TRUE, wellformed |-> TRUE, id |-> i] : i \in 1..(MaxDocs + 1) }

\* request.data['confidence_score'], in hundredths; 0 when it is absent
ConfidenceValues == {0, 50}

\* the user ids delete_user is asked for: the users' and one that never was
UserIdValues == Users \cup {"nobody"}

\* timezone.now(), the time of the request
Now == <<"n","o","w">>

\* a mutant of the document lookup: the owner is not part of the query
Document_objects_get_any_user(id, user) ==
    LET hits == {i \in DOMAIN documents : documents[i].id = id}
    IN  IF hits = {} THEN 0 ELSE CHOOSE i \in hits : TRUE

\* Document.objects.get(id=id, user=user): the place of the row in
\* documents, 0 for Document.DoesNotExist
Document_objects_get(id, user) ==
    LET hits == {i \in DOMAIN documents :
                     documents[i].id = id /\ documents[i].user = user}
    IN  IF hits = {} THEN 0 ELSE CHOOSE i \in hits : TRUE

\* ParsedProfile.objects.get_or_create(user=user, defaults={'document': d})
\* and lines 236-237: an existing row takes the document when one is given
parsed_profile_get_or_create(user, document) ==
    IF parsedProfiles[user].exists
    THEN [parsedProfiles[user] EXCEPT
            !.document = IF document # 0 THEN document ELSE @]
    ELSE [exists |-> TRUE, document |-> document, first_name |-> None,
          confidence_score |-> 0]

\* lines 229-267: the document is found, or none was asked for (id 0)
parsed_profile_save(user, at, first_name, confidence_score) ==
    /\ parsedProfiles' =
          [parsedProfiles EXCEPT ![user] =
              [parsed_profile_get_or_create(
                   user, IF at = 0 THEN 0 ELSE documents[at].id)
               EXCEPT !.first_name = IF first_name # None THEN first_name ELSE @,
                      !.confidence_score = IF confidence_score # 0
                                           THEN confidence_score ELSE 90]]
    /\ documents' = IF at = 0 THEN documents
                    ELSE [documents EXCEPT
                            ![at].processing_status = "completed",
                            ![at].processed_at = Now]
    /\ response' = Response(200, "Profile updated successfully")

\* update_parsed_profile. A document_id that is no id makes the query raise
\* an exception other than Document.DoesNotExist, which the outer
\* `except Exception` answers with 500.
update_parsed_profile(user, document_id, first_name, confidence_score) ==
    /\ request' = [kind |-> "update_parsed_profile", user |-> user,
                   document_id |-> document_id]
    /\ upload' = NoFile
    /\ outcome' = NoCall
    /\ UNCHANGED <<calls, mimeDb, userProfiles, accepted, users, userGoals,
                   lastDocumentId, running>>
    /\ IF document_id.given /\ ~document_id.wellformed
       THEN /\ response' = Response(500, "Profile update failed")
            /\ UNCHANGED <<documents, parsedProfiles>>
       ELSE IF document_id.given /\ Document_objects_get(document_id.id, user) = 0
       THEN /\ response' = Response(404, "Document not found or does not belong to user")
            /\ UNCHANGED <<documents, parsedProfiles>>
       ELSE parsed_profile_save(user,
                                IF document_id.given
                                THEN Document_objects_get(document_id.id, user)
                                ELSE 0,
                                first_name, confidence_score)

\* get_object_or_404(CustomUser, id=user_id): the row is found, or Http404
\* is raised
get_object_or_404(rows, id) == IF id \in rows THEN "found" ELSE "Http404"

\* lines 158-162, `except Exception as e`: Http404 is an Exception too
delete_user_except(raised) == Response(500, "Failed to delete user")

\* delete_user. user.delete() takes the user's rows in the other tables
\* with it.
delete_user(user_id) ==
    /\ request' = [kind |-> "delete_user", user_id |-> user_id]
    /\ upload' = NoFile
    /\ outcome' = NoCall
    /\ UNCHANGED <<calls, mimeDb, accepted, lastDocumentId, running>>
    /\ IF get_object_or_404(users, user_id) = "Http404"
       THEN /\ response' = delete_user_except("Http404")
            /\ UNCHANGED <<users, documents, userGoals, parsedProfiles,
                           userProfiles>>
       ELSE /\ users' = users \ {user_id}
            /\ documents' = SelectSeq(documents, LAMBDA d : d.user # user_id)
            /\ userGoals' = {g \in userGoals : g.user # user_id}
            /\ parsedProfiles' = [parsedProfiles EXCEPT ![user_id] = NoProfile]
            /\ userProfiles' = [userProfiles EXCEPT ![user_id] = NoProfile]
            /\ response' = Response(200, "deleted successfully")

\* a document upload that creates a row is possible while ids are left
MayUpload(file, valid) ==
    IF file = NoFile THEN TRUE
    ELSE lastDocumentId < MaxDocs \/ ~valid \/ ~validate_file(file).returned

NextApi ==
    \/ \E user \in users, file \in ApiFiles \cup {NoFile}, valid \in BOOLEAN :
          /\ MayUpload(file, valid)
          /\ DocumentUploadView_post(user, file, valid)
    \/ \E user \in users, document_id \in DocumentIdValues,
          first_name \in TextValues, confidence_score \in ConfidenceValues :
          update_parsed_profile(user, document_id, first_name, confidence_score)
    \/ \E user_id \in UserIdValues : delete_user(user_id)

SpecApi == Init /\ [][NextApi]_vars

\* the Document row with this id, in a table of rows
RowOf(rows, id) == CHOOSE i \in DOMAIN rows : rows[i].id = id

IdsOf(rows) == {rows[i].id : i \in DOMAIN rows}

\* C12: whenever validate_file rejects the file of a document upload for
\* one of the five reasons, the request is answered with 400 and the
\* reason's message, and the Document rows are after the request what they
\* were before it.
C12_RejectionAnswered400 ==
    [][ ( /\ request'.kind = "document_upload"
          /\ upload' # NoFile
          /\ outcome'.raised = "ValidationError"
          /\ outcome'.reason \in FiveReasons )
          => /\ response'.status = 400
             /\ response'.body = outcome'.message
             /\ response'.body.format # ""
             /\ documents' = documents ]_vars

\* C12 witness: an upload has been rejected for its MIME type and answered
\* with 400 while the user's earlier document is stored
C12_Witness ==
    /\ request.kind = "document_upload"
    /\ outcome.reason = "MimeNotAllowed"
    /\ response.status = 400
    /\ \E i \in DOMAIN documents : documents[i].user = request.user

\* C18: a Document row that a request creates has processing_status
\* 'uploaded', and that request is a document upload answered with 200; the
\* processing_status of a row changes only to 'completed', and only in an
\* update_parsed_profile request of the row's owner that names the row's id.
C18_StatusChangesOnlyByOwner ==
    [][ /\ \A id \in IdsOf(documents') \ IdsOf(documents) :
              /\ documents'[RowOf(documents', id)].processing_status = "uploaded"
              /\ request'.kind = "document_upload"
              /\ request'.user = documents'[RowOf(documents', id)].user
              /\ response'.status = 200
        /\ \A id \in IdsOf(documents') \cap IdsOf(documents) :
              LET old == documents[RowOf(documents, id)]
                  new == documents'[RowOf(documents', id)]
              IN  /\ new.user = old.user
                  /\ new.processing_status # old.processing_status
                       => /\ new.processing_status = "completed"
                          /\ request'.kind = "update_parsed_profile"
                          /\ request'.user = old.user
                          /\ request'.document_id.given
                          /\ request'.document_id.id = id ]_vars

\* C18 witness: a user has completed their own document, which their
\* parsed profile now refers to
C18_Witness ==
    \E i \in DOMAIN documents :
        /\ documents[i].processing_status = "completed"
        /\ documents[i].processed_at = Now
        /\ request.kind = "update_parsed_profile"
        /\ request.user = documents[i].user
        /\ request.document_id.id = documents[i].id
        /\ response.status = 200
        /\ parsedProfiles[request.user].document = documents[i].id

\* C19 as stated: an update_parsed_profile request whose document_id names
\* no document, or a document of another user, is answered with 404 and
\* changes no ParsedProfile and no Document.
C19_NotFoundChangesNothing ==
    [][ ( /\ request'.kind = "update_parsed_profile"
          /\ request'.document_id.given
          /\ ~\E i \in DOMAIN documents :
                 /\ request'.document_id.wellformed
                 /\ documents[i].id = request'.document_id.id
                 /\ documents[i].user = request'.user )
          => /\ response'.status = 404
             /\ parsedProfiles' = parsedProfiles
             /\ documents' = documents ]_vars

\* C20 as stated: a delete_user request for an id that no user has is
\* answered with 404 and leaves the users as they are; one for an existing
\* id removes exactly that user and is answered with 200.
C20_DeleteUser ==
    [][ request'.kind = "delete_user"
          => IF request'.user_id \in users
             THEN /\ users' = users \ {request'.user_id}
                  /\ response'.status = 200
             ELSE /\ users' = users
                  /\ response'.status = 404 ]_vars

----------------------------------------------------------------------------
(* SpecGoals: update_user_goals, get_user_goals and delete_user *)

GoalValues == {"career", "skills"}

\* request.data['goals']: the lists of at most MaxGoals goals
GoalLists ==
    UNION { [1..n -> GoalValues] : n \in 0..MaxGoals }

\* a mutant of lines 320-325: enumerate(goals_data) counts from 0
new_goals_from_zero(user, goals_data) ==
    { [user |-> user, goal |-> goals_data[i], priority |-> i - 1] :
        i \in DOMAIN goals_data }

\* lines 319-325: for i, goal in enumerate(goals_data, 1):
\* UserGoal(user=request.user, goal=goal, priority=i)
new_goals(user, goals_data) ==
    { [user |-> user, goal |-> goals_data[i], priority |-> i] :
        i \in DOMAIN goals_data }

\* update_user_goals. `valid` is what serializer.is_valid() answers for
\* request.data; the delete and the bulk_create are one transaction.
update_user_goals(user, goals_data, valid) ==
    /\ request' = [kind |-> "update_user_goals", user |-> user,
                   goals |-> goals_data, valid |-> valid]
    /\ upload' = NoFile
    /\ outcome' = NoCall
    /\ UNCHANGED <<calls, mimeDb, documents, userProfiles, accepted, users,
                   parsedProfiles, lastDocumentId, running>>
    /\ IF valid
       THEN /\ userGoals' = {g \in userGoals : g.user # user}
                               \cup new_goals(user, goals_data)
            /\ response' = Response(200, "success")
       ELSE /\ response' = Response(400, "serializer.errors")
            /\ UNCHANGED userGoals

\* rows.order_by('priority'), serialized
RECURSIVE order_by_priority(_)
order_by_priority(rows) ==
    IF rows = {} THEN <<>>
    ELSE LET first == CHOOSE g \in rows : \A h \in rows : g.priority <= h.priority
         IN  <<[goal |-> first.goal, priority |-> first.priority]>>
                 \o order_by_priority(rows \ {first})

\* get_user_goals
get_user_goals(user) ==
    /\ request' = [kind |-> "get_user_goals", user |-> user]
    /\ response' = Response(200, order_by_priority({g \in userGoals : g.user = user}))
    /\ upload' = NoFile
    /\ outcome' = NoCall
    /\ UNCHANGED <<calls, mimeDb, documents, userProfiles, accepted,
                   profileRows, lastDocumentId, running>>

NextGoals ==
    \/ \E user \in users, goals_data \in GoalLists, valid \in BOOLEAN :
          update_user_goals(user, goals_data, valid)
    \/ \E user \in users : get_user_goals(user)
    \/ \E user_id \in UserIdValues : delete_user(user_id)

SpecGoals == Init /\ [][NextGoals]_vars

\* the goals stored for a user
GoalsOf(rows, user) == {g \in rows : g.user = user}

\* C17: an update_user_goals request with goals g1..gn that succeeds leaves
\* the requesting user with exactly the goals g1..gn at priorities 1..n,
\* whatever the user had before, and every other user's goals as they
\* were; a request whose payload fails validation is answered with 400 and
\* changes no goal; get_user_goals changes no goal and returns the user's
\* goals by priority 1..n.
C17_GoalsReplaced ==
    [][ /\ request'.kind = "update_user_goals"
          => /\ request'.valid <=> response'.status = 200
             /\ ~request'.valid => response'.status = 400
             /\ IF response'.status = 200
                THEN /\ GoalsOf(userGoals', request'.user) =
                          { [user |-> request'.user,
                             goal |-> request'.goals[i],
                             priority |-> i] : i \in 1..Len(request'.goals) }
                     /\ \A u \in Users \ {request'.user} :
                            GoalsOf(userGoals', u) = GoalsOf(userGoals, u)
                ELSE userGoals' = userGoals
        /\ request'.kind = "get_user_goals"
          => /\ userGoals' = userGoals
             /\ response'.status = 200
             /\ Len(response'.body) =
                    Cardinality(GoalsOf(userGoals, request'.user))
             /\ \A i \in 1..Len(response'.body) :
                    /\ response'.body[i].priority = i
                    /\ [user |-> request'.user,
                        goal |-> response'.body[i].goal,
                        priority |-> i] \in userGoals ]_vars

\* C17 witness: a user is shown two goals in the order they were submitted
\* in, while the other user has goals too
C17_Witness ==
    /\ request.kind = "get_user_goals"
    /\ Len(response.body) = 2
    /\ response.body[1].goal = "skills"
    /\ response.body[2].goal = "career"
    /\ \E g \in userGoals : g.user # request.user

====
